---- MODULE Spec2Model ----
(***************************************************************************)
(* Model of app.py: the folder scan / text aggregation pipeline, the       *)
(* structured-extraction call to the LLM provider (POST /folder-assist)    *)
(* and the rewrite call (POST /ai-assist).                                 *)
(*                                                                         *)
(* Text is a sequence of one-character strings.  A JSON object (a Python   *)
(* dict with string keys) is a function from keys to values.               *)
(***************************************************************************)
EXTENDS Integers, Sequences, FiniteSets, TLC

VARIABLES
    pc,          \* position of the request handler: idle, analyse, llm, done
    folder,      \* the one directory of the file system, at path TheFolder
    req,         \* the request being served
    collected,   \* collect_text_from_folder's result inside analyse_folder
    text_short,  \* the document text placed into the extraction prompt
    outcome,     \* what the last LLM adapter call did
    calls,       \* number of LLM adapter calls made for the current request
    resp         \* the HTTP response of the current request

vars == <<pc, folder, req, collected, text_short, outcome, calls, resp>>

----------------------------------------------------------------------------
(* Bounds of the model *)

MaxFiles == 2        \* entries in the folder
MaxPages == 2        \* pages of a PDF
MaxParas == 2        \* paragraphs of a DOCX
MaxElapsed == 1      \* measured seconds, 0..MaxElapsed
Overshoot == 3       \* characters by which the long sample text exceeds the limit

(* Program constant: raw_text[:20000] *)
TruncateAt == 20000

----------------------------------------------------------------------------
(* Characters and strings *)

NL == "\n"
Whitespace == {" ", NL, "\t"}
BadByte == "<ff>"    \* a byte that is not valid UTF-8

Min(S) == CHOOSE x \in S : \A y \in S : x <= y
Max(S) == CHOOSE x \in S : \A y \in S : x >= y

(* bool(s.strip()) is False: s has whitespace only *)
IsBlank(s) == \A i \in 1..Len(s) : s[i] \in Whitespace

(* str.strip(): drop leading and trailing whitespace *)
Strip(s) ==
    IF IsBlank(s) THEN <<>>
    ELSE LET first == CHOOSE i \in 1..Len(s) :
                          s[i] \notin Whitespace /\ \A j \in 1..(i-1) : s[j] \in Whitespace
             last  == CHOOSE i \in 1..Len(s) :
                          s[i] \notin Whitespace /\ \A j \in (i+1)..Len(s) : s[j] \in Whitespace
         IN  SubSeq(s, first, last)

(* str.lower() on the characters that occur in file names *)
LowerChar(c) ==
    CASE c = "T" -> "t"
      [] c = "X" -> "x"
      [] c = "P" -> "p"
      [] c = "D" -> "d"
      [] c = "F" -> "f"
      [] OTHER -> c

Lower(s) == [i \in 1..Len(s) |-> LowerChar(s[i])]

EndsWith(s, suffix) ==
    /\ Len(s) >= Len(suffix)
    /\ SubSeq(s, Len(s) - Len(suffix) + 1, Len(s)) = suffix

(* the start positions of needle in hay *)
Occurrences(hay, needle) ==
    {i \in 1..(Len(hay) - Len(needle) + 1) : SubSeq(hay, i, i + Len(needle) - 1) = needle}

(* os.path.splitext(name)[1]: from the last dot, when a non-dot precedes it *)
SplitExt(name) ==
    LET dots == {i \in 2..Len(name) : name[i] = "." /\ \E j \in 1..(i-1) : name[j] # "."}
    IN  IF dots = {} THEN <<>> ELSE SubSeq(name, Max(dots), Len(name))

RECURSIVE Join(_, _)
(* sep.join(parts) *)
Join(parts, sep) ==
    IF Len(parts) = 0 THEN <<>>
    ELSE IF Len(parts) = 1 THEN parts[1]
    ELSE parts[1] \o sep \o Join(Tail(parts), sep)

SeqsUpTo(S, n) == UNION {[1..k -> S] : k \in 0..n}

----------------------------------------------------------------------------
(* Text extractors *)

(* A file is [name, ok, parts], read by the extractor its name selects:     *)
(*   txt:  ok = open and read succeed, parts = <<the bytes>>                *)
(*   docx: ok = the document opens and parses, parts = paragraph texts      *)
(*   pdf:  ok = open and PdfReader succeed, parts = pages, each             *)
(*         [st |-> "text", text], [st |-> "none"] (extract_text returns     *)
(*         None) or [st |-> "fail"] (extract_text raises)                   *)

RECURSIVE PdfPages(_, _)
(* the page loop: text accumulated so far, abandoned at the first page that raises *)
PdfPages(pages, text) ==
    IF Len(pages) = 0 THEN text
    ELSE LET page == Head(pages) IN
         IF page.st = "fail" THEN text
         ELSE LET page_text == IF page.st = "text" THEN page.text ELSE <<>>
              IN  PdfPages(Tail(pages), text \o page_text \o <<NL>>)

extract_text_from_pdf_path(f) ==
    IF ~f.ok THEN <<>> ELSE PdfPages(f.parts, <<>>)

extract_text_from_docx_path(f) ==
    IF ~f.ok THEN <<>> ELSE Join(f.parts, <<NL>>)

(* decoding with errors="ignore" drops the undecodable bytes *)
Decode(bytes) == SelectSeq(bytes, LAMBDA b : b # BadByte)

extract_text_from_txt_path(f) ==
    IF ~f.ok THEN <<>> ELSE Decode(f.parts[1])

----------------------------------------------------------------------------
(* Folder Collector *)

TheFolder == <<"/", "d">>          \* the path of the one directory that may exist

isdir(path) == path = TheFolder /\ folder.exists

ExtPdf == <<".", "p", "d", "f">>
ExtDocx == <<".", "d", "o", "c", "x">>
ExtTxt == <<".", "t", "x", "t">>

(* glob.glob(os.path.join(folder_path, "*" + ext)): the entries, in directory *)
(* order, whose name ends with ext and does not start with a dot              *)
Glob(files, ext) ==
    SelectSeq(files, LAMBDA f : EndsWith(f.name, ext) /\ f.name[1] # ".")

(* the patterns are globbed in the order pdf, docx, txt *)
AllPaths(files) == Glob(files, ExtPdf) \o Glob(files, ExtDocx) \o Glob(files, ExtTxt)

(* the extractor chosen by the lower-cased extension *)
FileText(f) ==
    LET ext == Lower(SplitExt(f.name)) IN
    IF ext = ExtPdf THEN extract_text_from_pdf_path(f)
    ELSE IF ext = ExtDocx THEN extract_text_from_docx_path(f)
    ELSE IF ext = ExtTxt THEN extract_text_from_txt_path(f)
    ELSE <<>>

(* the text of the line "===== FILE: <basename> =====" *)
HeaderLine(name) ==
    <<"=", "=", "=", "=", "=", " ", "F", "I", "L", "E", ":", " ">> \o name
        \o <<" ", "=", "=", "=", "=", "=">>

Delimiter(name) == <<NL, NL>> \o HeaderLine(name) \o <<NL>>

FileReport(folder_path, f) ==
    LET file_text == FileText(f) IN
    [ path      |-> folder_path \o <<"/">> \o f.name,
      filename  |-> f.name,
      extension |-> Lower(SplitExt(f.name)),
      chars     |-> Len(file_text),
      had_text  |-> ~IsBlank(file_text) ]

(* what one file adds to combined_text *)
Contribution(f) ==
    LET file_text == FileText(f) IN
    IF ~IsBlank(file_text) THEN Delimiter(f.name) \o file_text ELSE <<>>

RECURSIVE CollectLoop(_, _, _, _)
(* the loop over all_paths *)
CollectLoop(folder_path, paths, files_info, combined_text) ==
    IF Len(paths) = 0
    THEN [raised |-> FALSE, combined_text |-> combined_text, files |-> files_info]
    ELSE CollectLoop(folder_path, Tail(paths),
                     Append(files_info, FileReport(folder_path, Head(paths))),
                     combined_text \o Contribution(Head(paths)))

(* raised = TRUE stands for the FileNotFoundError *)
collect_text_from_folder(folder_path) ==
    IF ~isdir(folder_path)
    THEN [raised |-> TRUE, combined_text |-> <<>>, files |-> <<>>]
    ELSE CollectLoop(folder_path, AllPaths(folder.files), <<>>, <<>>)

NotCollected == [raised |-> FALSE, combined_text |-> <<>>, files |-> <<>>]

(* mutant of NoReadableText: the test is "raw_text is None", which no text meets *)
NoReadableTextNever(raw_text) == FALSE

(* "if not raw_text.strip()": the short-circuit test of analyse_folder *)
NoReadableText(raw_text) == IsBlank(raw_text)

(* mutant of Truncate: the slice is one character short *)
TruncateShort(raw_text) == SubSeq(raw_text, 1, Min({Len(raw_text), TruncateAt - 1}))

(* raw_text[:20000] *)
Truncate(raw_text) == SubSeq(raw_text, 1, Min({Len(raw_text), TruncateAt}))

----------------------------------------------------------------------------
(* JSON objects, the LLM adapter's outcomes and the results built from them *)

FormFields ==
    { "name", "email", "phone", "date_of_birth", "nationality",
      "address_line1", "address_line2", "city", "state_region", "country",
      "preferred_contact",
      "level_of_study", "programme_interest", "study_mode", "intake",
      "highest_qualification", "highest_institution", "field_of_study",
      "graduation_year", "grade", "other_qualifications",
      "total_experience", "current_employer", "current_position",
      "industry", "experience_summary",
      "background_statement", "ai_notes" }

EmptyObj == [k \in {} |-> <<>>]

(* d[k] = v on a dict *)
Put(d, k, v) == (k :> v) @@ d

(* An adapter outcome is [kind |-> "raise", exc] (the provider call raises   *)
(* with message exc) or [kind |-> "return", content]; content is the         *)
(* completion text, given by its JSON syntax: "none" (message.content is     *)
(* None), "invalid", "array", "string", "number" or "object" with members obj *)

(* json.loads(content), then data["files"] = files_info: the exception        *)
(* message when either raises, else the dict                                  *)
LoadAndAttach(content, files_info) ==
    CASE content.syntax = "none" ->
           [raised |-> TRUE,
            exc |-> <<"the JSON object must be str, bytes or bytearray, not NoneType">>,
            data |-> EmptyObj]
      [] content.syntax = "invalid" ->
           [raised |-> TRUE, exc |-> <<"Expecting value: line 1 column 1 (char 0)">>,
            data |-> EmptyObj]
      [] content.syntax = "array" ->
           [raised |-> TRUE, exc |-> <<"list indices must be integers or slices, not str">>,
            data |-> EmptyObj]
      [] content.syntax = "string" ->
           [raised |-> TRUE, exc |-> <<"'str' object does not support item assignment">>,
            data |-> EmptyObj]
      [] content.syntax = "number" ->
           [raised |-> TRUE, exc |-> <<"'int' object does not support item assignment">>,
            data |-> EmptyObj]
      [] OTHER ->
           [raised |-> FALSE, exc |-> <<>>, data |-> Put(content.obj, "files", files_info)]

(* mutant of AiErrorResult: the except branch forgets the file list *)
AiErrorResultNoFiles(e, files_info) ==
    Put(EmptyObj, "error", <<"Error while contacting AI service: ">> \o e)

(* the except branch of analyse_folder *)
AiErrorResult(e, files_info) ==
    Put(Put(EmptyObj, "error", <<"Error while contacting AI service: ">> \o e),
        "files", files_info)

(* the try/except of analyse_folder *)
AnalyseResult(o, files_info) ==
    IF o.kind = "raise" THEN AiErrorResult(o.exc, files_info)
    ELSE LET r == LoadAndAttach(o.content, files_info) IN
         IF r.raised THEN AiErrorResult(r.exc, files_info) ELSE r.data

(* the short-circuit result of analyse_folder *)
NoTextResult(files_info) ==
    Put(Put(EmptyObj, "error", <<"No readable text found in folder (PDF/DOCX/TXT).">>),
        "files", files_info)

(* jsonify(body), status *)
Json(status, body) == [status |-> status, json |-> TRUE, body |-> body]

(* an exception leaves the view function: Flask answers 500 with no JSON body *)
Unhandled == [status |-> 500, json |-> FALSE, body |-> EmptyObj]

----------------------------------------------------------------------------
(* Inputs: folder contents, request bodies, adapter outcomes *)

NameTxt == <<"a">> \o ExtTxt
NamePdf == <<"b">> \o ExtPdf
NameDocx == <<"c">> \o ExtDocx
NameOther == <<"d", ".", "p", "n", "g">>

Hi == <<"H", "i">>

Absent == [name |-> <<>>, ok |-> FALSE, parts |-> <<>>]

TxtSamples == { <<>>, <<" ", NL>>, Hi, <<"H", BadByte, "i">>, HeaderLine(NameTxt) }

TxtFiles ==
    {[name |-> NameTxt, ok |-> FALSE, parts |-> << <<>> >>]}
        \cup {[name |-> NameTxt, ok |-> TRUE, parts |-> <<t>>] : t \in TxtSamples}

PageSamples == { [st |-> "none", text |-> <<>>], [st |-> "fail", text |-> <<>>],
                 [st |-> "text", text |-> Hi] }

PdfFiles ==
    {[name |-> NamePdf, ok |-> FALSE, parts |-> <<>>]}
        \cup {[name |-> NamePdf, ok |-> TRUE, parts |-> ps] : ps \in SeqsUpTo(PageSamples, MaxPages)}

ParaSamples == { <<>>, Hi }

DocxFiles ==
    {[name |-> NameDocx, ok |-> FALSE, parts |-> <<>>]}
        \cup {[name |-> NameDocx, ok |-> TRUE, parts |-> ps] : ps \in SeqsUpTo(ParaSamples, MaxParas)}

OtherFiles == {[name |-> NameOther, ok |-> TRUE, parts |-> <<>>]}

(* the directory listings built from one choice per name, in directory order *)
Listings(T, P, D, O) ==
    { SelectSeq(<<t, p, d, o>>, LAMBDA f : f # Absent) :
        t \in T \cup {Absent}, p \in P \cup {Absent},
        d \in D \cup {Absent}, o \in O \cup {Absent} }

Folders == {l \in Listings(TxtFiles, PdfFiles, DocxFiles, OtherFiles) : Len(l) <= MaxFiles}

(* a text of n characters *)
LongText(n) == [i \in 1..n |-> IF i % 2 = 0 THEN "x" ELSE "y"]

(* texts that bring combined_text to TruncateAt .. TruncateAt + Overshoot characters *)
LongTxtFiles ==
    {[name |-> NameTxt, ok |-> TRUE,
      parts |-> <<LongText(TruncateAt - Len(Delimiter(NameTxt)) + k)>>] : k \in 0..Overshoot}

LongFolders == {l \in Listings(LongTxtFiles, {}, {}, OtherFiles) : Len(l) >= 1 /\ l[1].name = NameTxt}

(* the value of a key of the request body: absent, a string, or some other JSON value *)
Str(v) == [kind |-> "string", val |-> v]
Missing == [kind |-> "missing", val |-> <<>>]
NonString == [kind |-> "other", val |-> <<>>]

FolderInputs ==
    { Missing, NonString, Str(<<>>), Str(<<" ">>), Str(TheFolder),
      Str(<<" ", "/", "n", NL>>) }

TextInputs == { Missing, NonString, Str(<<>>), Str(<<" ", NL>>), Str(Hi), Str(<<" ", "H">>) }

FullObj(v) == [k \in FormFields |-> v]

Objects ==
    { FullObj(<<>>), FullObj(<<"Ann">>), EmptyObj,
      [k \in FormFields \ {"name"} |-> <<>>],
      Put(FullObj(<<>>), "hobby", <<"chess">>),
      Put(FullObj(<<>>), "error", <<"unreadable scan">>),
      Put(FullObj(<<>>), "files", <<"cv.pdf">>),
      Put(FullObj(<<>>), "elapsed_seconds", <<"1">>) }

Contents ==
    {[syntax |-> s, obj |-> EmptyObj] : s \in {"none", "invalid", "array", "string", "number"}}
        \cup {[syntax |-> "object", obj |-> o] : o \in Objects}

ExcTexts == { <<"Connection error.">>, <<"Incorrect API key provided: sk-123">> }

Outcomes ==
    {[kind |-> "raise", exc |-> e, content |-> [syntax |-> "none", obj |-> EmptyObj]] : e \in ExcTexts}
        \cup {[kind |-> "return", exc |-> <<>>, content |-> c] : c \in Contents}

(* the rewrite completion is free text: nothing, or text that is no JSON *)
RewriteOutcomes ==
    {o \in Outcomes : o.kind = "raise" \/ o.content.syntax \in {"none", "invalid"}}

----------------------------------------------------------------------------
(* State machine *)

NoResp == [status |-> 0, json |-> FALSE, body |-> EmptyObj]
NoOutcome == [kind |-> "none", exc |-> <<>>, content |-> [syntax |-> "none", obj |-> EmptyObj]]
NoReq == [endpoint |-> "none", input |-> Missing, path |-> <<>>]

Init ==
    /\ pc = "idle"
    /\ folder = [exists |-> FALSE, files |-> <<>>]
    /\ req = NoReq
    /\ collected = NotCollected
    /\ text_short = <<>>
    /\ outcome = NoOutcome
    /\ calls = 0
    /\ resp = NoResp

(* the file system between requests: the folder is created with its files *)
SetFolder(listings) ==
    /\ pc = "idle"
    /\ ~folder.exists
    /\ \E files \in listings : folder' = [exists |-> TRUE, files |-> files]
    /\ UNCHANGED <<pc, req, collected, text_short, outcome, calls, resp>>

(* the file system at any time before the scan: the folder is removed *)
RemoveFolder ==
    /\ pc \in {"idle", "analyse"}
    /\ folder.exists
    /\ folder' = [exists |-> FALSE, files |-> <<>>]
    /\ UNCHANGED <<pc, req, collected, text_short, outcome, calls, resp>>

(* folder_assist up to its own os.path.isdir check *)
FolderAssistBegin ==
    /\ pc = "idle"
    /\ UNCHANGED <<folder, collected, text_short, outcome, calls>>
    /\ \E input \in FolderInputs :
       IF input.kind = "other"
       THEN \* .strip() on a value that is no string raises AttributeError
            /\ req' = [endpoint |-> "folder-assist", input |-> input, path |-> <<>>]
            /\ resp' = Unhandled
            /\ pc' = "done"
       ELSE LET folder_path == Strip(input.val) IN
            /\ req' = [endpoint |-> "folder-assist", input |-> input, path |-> folder_path]
            /\ IF folder_path = <<>>
               THEN /\ resp' = Json(200, Put(EmptyObj, "error", <<"No folder path provided.">>))
                    /\ pc' = "done"
               ELSE IF ~isdir(folder_path)
               THEN /\ resp' = Json(200, Put(EmptyObj, "error",
                                             <<"Folder does not exist: ">> \o folder_path))
                    /\ pc' = "done"
               ELSE /\ resp' = resp
                    /\ pc' = "analyse"

(* analyse_folder up to the prompt: the scan, the short-circuit, the truncation *)
Collect ==
    /\ pc = "analyse"
    /\ UNCHANGED <<folder, req, outcome, calls>>
    /\ \E elapsed \in 0..MaxElapsed :
       LET c == collect_text_from_folder(req.path) IN
       /\ collected' = c
       /\ IF c.raised
          THEN \* FileNotFoundError leaves analyse_folder and folder_assist
               /\ resp' = Unhandled
               /\ text_short' = text_short
               /\ pc' = "done"
          ELSE IF NoReadableText(c.combined_text)
          THEN /\ resp' = Json(200, Put(NoTextResult(c.files), "elapsed_seconds", elapsed))
               /\ text_short' = text_short
               /\ pc' = "done"
          ELSE /\ text_short' = Truncate(c.combined_text)
               /\ resp' = resp
               /\ pc' = "llm"

(* the chat-completion call of analyse_folder, its try/except, and the rest of folder_assist *)
Extract ==
    /\ pc = "llm"
    /\ \E o \in Outcomes, elapsed \in 0..MaxElapsed :
          /\ outcome' = o
          /\ resp' = Json(200, Put(AnalyseResult(o, collected.files), "elapsed_seconds", elapsed))
    /\ calls' = calls + 1
    /\ pc' = "done"
    /\ UNCHANGED <<folder, req, collected, text_short>>

(* mutant of RewriteResponse: the provider failure is answered with status 200, *)
(* as /folder-assist does                                                       *)
RewriteResponseAlways200(o) ==
    IF o.kind = "raise"
    THEN Json(200, Put(EmptyObj, "error", <<"Error while contacting the AI service.">>))
    ELSE Json(200, Put(EmptyObj, "improved_text", o.content))

(* the response of ai_assist once raw_text is known to be a non-blank string *)
RewriteResponse(o) ==
    IF o.kind = "raise"
    THEN [status |-> 500, json |-> TRUE,
          body |-> Put(EmptyObj, "error", <<"Error while contacting the AI service.">>)]
    ELSE Json(200, Put(EmptyObj, "improved_text", o.content))

(* ai_assist *)
AiAssist ==
    /\ pc = "idle"
    /\ pc' = "done"
    /\ UNCHANGED <<folder, collected, text_short>>
    /\ \E input \in TextInputs :
          /\ req' = [endpoint |-> "ai-assist", input |-> input, path |-> <<>>]
          /\ IF input.kind = "other"
             THEN \* .strip() on a value that is no string raises AttributeError
                  /\ resp' = Unhandled
                  /\ UNCHANGED <<outcome, calls>>
             ELSE IF IsBlank(input.val)
             THEN /\ resp' = Json(400, Put(EmptyObj, "error", <<"No text provided.">>))
                  /\ UNCHANGED <<outcome, calls>>
             ELSE \E o \in RewriteOutcomes :
                  /\ outcome' = o
                  /\ calls' = calls + 1
                  /\ resp' = RewriteResponse(o)

(* the response is sent; the request's locals are gone *)
Finish ==
    /\ pc = "done"
    /\ pc' = "idle"
    /\ req' = NoReq
    /\ collected' = NotCollected
    /\ text_short' = <<>>
    /\ outcome' = NoOutcome
    /\ calls' = 0
    /\ resp' = NoResp
    /\ UNCHANGED folder

Serve ==
    \/ FolderAssistBegin
    \/ Collect
    \/ Extract
    \/ AiAssist
    \/ Finish
    \/ RemoveFolder

Next ==
    \/ Serve
    \/ SetFolder(Folders)

Spec == Init /\ [][Next]_vars

(* the same program over folders whose text reaches the truncation limit *)
NextLong ==
    \/ Serve
    \/ SetFolder(LongFolders)

SpecLong == Init /\ [][NextLong]_vars

----------------------------------------------------------------------------
(* Properties *)

FolderRequest == req.endpoint = "folder-assist"
RewriteRequest == req.endpoint = "ai-assist"

(* the folder was scanned by the current request; it cannot change afterwards, *)
(* so folder.files is what the scan read                                        *)
Scanned == FolderRequest /\ pc \in {"llm", "done"} /\ req.path = TheFolder /\ folder.exists

(* the adapter was called by the current /folder-assist request and has answered *)
Extracted == FolderRequest /\ pc = "done" /\ calls = 1

Keys(r) == DOMAIN r.body

IsErrorJson(r, status) == r.status = status /\ r.json /\ "error" \in Keys(r)

FileNamed(name) == CHOOSE f \in {folder.files[i] : i \in 1..Len(folder.files)} : f.name = name

Recognised(name) == SplitExt(name) \in {ExtPdf, ExtDocx, ExtTxt}

(* C1: a /folder-assist request whose folder_path names a directory that does *)
(* not exist when it is scanned (never there, or removed between the handler's *)
(* check and the collector's check) is answered 200 with a JSON object that    *)
(* has an error key.                                                           *)
C1_MissingFolderIsErrorPayload ==
    ( /\ pc = "done"
      /\ FolderRequest
      /\ req.input.kind = "string"
      /\ req.path # <<>>
      /\ (req.path # TheFolder \/ ~folder.exists) )
    => IsErrorJson(resp, 200)

(* C2: a /folder-assist response never has an error key together with         *)
(* extracted form fields, whatever keys the adapter's JSON object contains.    *)
C2_ErrorExcludesFields ==
    (pc = "done" /\ FolderRequest /\ resp.json)
    => ~("error" \in Keys(resp) /\ Keys(resp) \cap FormFields # {})

(* C3: when the adapter succeeds and its text parses as a JSON object, the     *)
(* keys of the response are exactly the enumerated fields plus files and       *)
(* elapsed_seconds.                                                            *)
C3_ExactKeys ==
    (Extracted /\ outcome.kind = "return" /\ outcome.content.syntax = "object")
    => Keys(resp) = FormFields \cup {"files", "elapsed_seconds"}

AdapterFailed ==
    \/ outcome.kind = "raise"
    \/ outcome.kind = "return" /\ outcome.content.syntax # "object"

(* C4: when the adapter raises, or returns text that is no JSON or no JSON     *)
(* object, the /folder-assist response is 200, a JSON object with an error     *)
(* string, the collector's files list and none of the form fields.             *)
C4_AdapterFailureIsErrorResult ==
    (Extracted /\ AdapterFailed)
    => /\ IsErrorJson(resp, 200)
       /\ Len(resp.body["error"]) > 0
       /\ "files" \in Keys(resp)
       /\ resp.body["files"] = collected.files
       /\ Keys(resp) \cap FormFields = {}

C4_Witness ==
    /\ Extracted
    /\ outcome.kind = "return"
    /\ outcome.content.syntax = "invalid"
    /\ Len(collected.files) = 2

(* C5: when the collector's combined text is blank, the adapter is not called  *)
(* in that request and the result is the no-readable-text error carrying one   *)
(* report for every scanned file.                                              *)
C5_BlankTextSkipsAdapter ==
    (Scanned /\ IsBlank(collected.combined_text))
    => /\ pc = "done"
       /\ calls = 0
       /\ IsErrorJson(resp, 200)
       /\ resp.body["error"] = <<"No readable text found in folder (PDF/DOCX/TXT).">>
       /\ resp.body["files"] = collected.files
       /\ {collected.files[i].filename : i \in 1..Len(collected.files)}
            = {folder.files[i].name : i \in {j \in 1..Len(folder.files) :
                                                Recognised(folder.files[j].name)}}
       /\ Len(collected.files)
            = Cardinality({j \in 1..Len(folder.files) : Recognised(folder.files[j].name)})

C5_Witness ==
    /\ Scanned
    /\ pc = "done"
    /\ IsBlank(collected.combined_text)
    /\ Len(collected.files) = 2
    /\ \E i \in 1..2 : collected.files[i].chars > 0

Untimed(body) == [k \in DOMAIN body \ {"elapsed_seconds"} |-> body[k]]

(* C7: on either endpoint, the response to a provider error does not depend on *)
(* the text of the exception the provider raised.                              *)
C7_ProviderErrorIsGeneric ==
    (pc = "done" /\ calls = 1 /\ outcome.kind = "raise")
    => \A e \in ExcTexts :
          LET other == [outcome EXCEPT !.exc = e] IN
          IF FolderRequest
          THEN Untimed(resp.body) = Untimed(AnalyseResult(other, collected.files))
          ELSE resp.body = RewriteResponse(other).body

HasFailure(f) ==
    \/ ~f.ok
    \/ SplitExt(f.name) = ExtPdf /\ \E i \in 1..Len(f.parts) : f.parts[i].st = "fail"

(* C8: a file whose extraction fails (it cannot be opened or parsed, or a PDF  *)
(* page raises after earlier pages were read) yields the empty string: its     *)
(* report has chars = 0 and had_text = false.                                  *)
C8_FailureYieldsEmptyText ==
    Scanned
    => \A i \in 1..Len(collected.files) :
          LET r == collected.files[i] IN
          HasFailure(FileNamed(r.filename)) => (r.chars = 0 /\ ~r.had_text)

(* C9: for every scanned file with non-blank text, the line                    *)
(* "===== FILE: <basename> =====" occurs exactly once in combined_text and is  *)
(* directly followed by that file's whole text; a file with blank text has     *)
(* had_text = false.                                                           *)
C9_DelimiterOnceBeforeText ==
    Scanned
    => \A i \in 1..Len(collected.files) :
          LET r    == collected.files[i]
              line == HeaderLine(r.filename)
              text == FileText(FileNamed(r.filename))
              at   == Occurrences(collected.combined_text, line)
          IN  IF IsBlank(text)
              THEN ~r.had_text
              ELSE /\ r.had_text
                   /\ Cardinality(at) = 1
                   /\ \A p \in at :
                         LET from == p + Len(line) IN
                         /\ from + Len(text) <= Len(collected.combined_text)
                         /\ SubSeq(collected.combined_text, from, from + Len(text))
                              = <<NL>> \o text

(* the prompt of the current /folder-assist request has been built *)
PromptBuilt == FolderRequest /\ (pc = "llm" \/ (pc = "done" /\ calls = 1))

(* C10: the text placed into the prompt is the first 20000 characters of       *)
(* combined_text when that is longer, and all of it otherwise; the files list  *)
(* of the response is the collector's list, each chars being the length of the *)
(* file's whole text.                                                          *)
C10_TruncationLeavesFiles ==
    PromptBuilt
    => /\ Len(text_short) = (IF Len(collected.combined_text) > 20000
                             THEN 20000 ELSE Len(collected.combined_text))
       /\ \A i \in 1..Len(text_short) : text_short[i] = collected.combined_text[i]
       /\ pc = "done" =>
            /\ resp.body["files"] = collected.files
            /\ \A i \in 1..Len(collected.files) :
                  LET text == FileText(FileNamed(collected.files[i].filename)) IN
                  /\ collected.files[i].chars = Len(text)
                  /\ collected.files[i].had_text = (\E j \in 1..Len(text) : text[j] \notin Whitespace)

C10_Witness ==
    /\ PromptBuilt
    /\ pc = "done"
    /\ Len(collected.combined_text) > 20000
    /\ Len(text_short) = 20000
    /\ collected.files[1].chars > 20000 - Len(Delimiter(NameTxt))

====
